---- MODULE Spec2Model ----
(***************************************************************************)
(* Demo management service: the Demo table with soft deletion, the logo    *)
(* store, the six HTTP endpoints and the generic filter / search /         *)
(* pagination query of BaseAppRepository.get_all.                          *)
(*                                                                         *)
(* Text values are sequences of one-character strings so that folding,     *)
(* stripping and pattern matching are computed.  A nullable text column    *)
(* holds NullStr for SQL NULL.  A datetime is a number of ticks,            *)
(* TicksPerDay to the day, days being proleptic ordinals (day 1 is a        *)
(* Monday); now is the server clock.  deleted_at is NullTime or SetTime;    *)
(* in the service specification created_at is the creation order.          *)
(***************************************************************************)
EXTENDS Integers, Sequences, FiniteSets, TLC

VARIABLES rows, files, nextFile, ops, resp, deleted_ok, qres, now, sess

vars == <<rows, files, nextFile, ops, resp, deleted_ok, qres, now, sess>>

(***************************************************************************)
(* Bounds of the model.                                                    *)
(***************************************************************************)
MaxDemos == 2
MaxOps == 3
MaxQRows == 2
MaxRules == 2
TicksPerDay == 2
MaxCount == 2
MaxSessions == 2

(***************************************************************************)
(* Program constants.                                                      *)
(***************************************************************************)
NameMaxLength == 200
LimitDefault == 100
LimitMax == 100
LimitMin == 1
OffsetMin == 0
HTTP_200_OK == 200
HTTP_201_CREATED == 201
HTTP_404_NOT_FOUND == 404
HTTP_422_UNPROCESSABLE_ENTITY == 422
HTTP_500_INTERNAL_SERVER_ERROR == 500

(***************************************************************************)
(* Text.                                                                   *)
(***************************************************************************)
NullStr == <<"NULL">>
NullTime == 0
SetTime == 1
NoUser == 0
UserId == 1

S_created == <<"c", "r", "e", "a", "t", "e", "d">>
S_updating == <<"u", "p", "d", "a", "t", "i", "n", "g">>
S_updated == <<"u", "p", "d", "a", "t", "e", "d">>
S_deleting == <<"d", "e", "l", "e", "t", "i", "n", "g">>
S_deleted == <<"d", "e", "l", "e", "t", "e", "d">>

DemoStatus == {S_created, S_updating, S_updated, S_deleting, S_deleted}

SetMin(S) == CHOOSE x \in S : \A y \in S : x <= y
SetMax(S) == CHOOSE x \in S : \A y \in S : x >= y
Min2(a, b) == IF a <= b THEN a ELSE b
Max2(a, b) == IF a >= b THEN a ELSE b

\* datetime.combine(day, time), func.date(datetime), date.weekday()
MinTime == 0
Combine(day, tick) == day * TicksPerDay + tick
DateOf(dt) == dt \div TicksPerDay
Weekday(day) == (day + 6) % 7

\* str.lower() on the characters the model uses
LowerChar(c) ==
    CASE c = "A" -> "a"
      [] c = "B" -> "b"
      [] c = "E" -> "e"
      [] c = "T" -> "t"
      [] c = "R" -> "r"
      [] c = "U" -> "u"
      [] c = "F" -> "f"
      [] c = "L" -> "l"
      [] c = "S" -> "s"
      [] OTHER -> c

Lower(s) == [i \in 1..Len(s) |-> LowerChar(s[i])]

\* str.strip() as applied by BaseAppSchema.strip_strings
Strip(s) ==
    LET keep == {i \in 1..Len(s) : s[i] # " "}
    IN IF keep = {} THEN <<>> ELSE SubSeq(s, SetMin(keep), SetMax(keep))

(***************************************************************************)
(* The Demo table.  rows[i] is the row with demo_id = i.                   *)
(***************************************************************************)
DemoModelDefaultUpdating(id, name, logo, created_at) ==
    [demo_id |-> id, name |-> name, logo |-> logo,
     created_at |-> created_at, deleted_at |-> NullTime, deleted_by |-> NoUser,
     status |-> S_updating, is_active |-> TRUE,
     error_message |-> NullStr, error_user_message |-> NullStr]
DemoModel(id, name, logo, created_at) ==
    [demo_id |-> id, name |-> name, logo |-> logo,
     created_at |-> created_at, deleted_at |-> NullTime, deleted_by |-> NoUser,
     status |-> S_created, is_active |-> TRUE,
     error_message |-> NullStr, error_user_message |-> NullStr]

NoDemo == DemoModel(0, NullStr, NullStr, 0)

\* Exceptions and their HTTP status
DemoNotFoundException(id) ==
    [type |-> "DemoNotFoundException", status_code |-> HTTP_404_NOT_FOUND, demo_id |-> id]
InternalServerErrorException(id) ==
    [type |-> "InternalServerErrorException", status_code |-> HTTP_500_INTERNAL_SERVER_ERROR, demo_id |-> id]
NoException == [type |-> "none", status_code |-> HTTP_200_OK, demo_id |-> 0]

Raised(r) == r.exc.type # "none"

\* DemoRepository.insert
RepoInsert(t, name, logo) == Append(t, DemoModel(Len(t) + 1, name, logo, Len(t) + 1))

\* DemoRepository.get_by_id: None for a missing row, not-found for a deleted one
GetByIdNoDeletedCheck(t, id) ==
    IF id \notin DOMAIN t
    THEN [exc |-> NoException, found |-> FALSE, demo |-> NoDemo]
    ELSE [exc |-> NoException, found |-> TRUE, demo |-> t[id]]
GetById(t, id) ==
    IF id \notin DOMAIN t
    THEN [exc |-> NoException, found |-> FALSE, demo |-> NoDemo]
    ELSE IF t[id].status = S_deleted
         THEN [exc |-> DemoNotFoundException(id), found |-> FALSE, demo |-> NoDemo]
         ELSE [exc |-> NoException, found |-> TRUE, demo |-> t[id]]

\* the not-found outcome of the repository's mutators
RepoNotFound(t, id, g) ==
    [exc |-> IF Raised(g) THEN g.exc ELSE DemoNotFoundException(id), rows |-> t, demo |-> NoDemo]

\* DemoRepository.update: demo_data is a set of <<key, value>> pairs; a NULL
\* written to the NOT NULL column name fails the commit (IntegrityError)
SetAttrs(demo, demo_data) ==
    [k \in DOMAIN demo |->
        IF \E p \in demo_data : p[1] = k
        THEN (CHOOSE p \in demo_data : p[1] = k)[2]
        ELSE demo[k]]

RepoUpdate(t, id, demo_data) ==
    LET g == GetById(t, id)
    IN IF Raised(g) \/ ~g.found THEN RepoNotFound(t, id, g)
       ELSE IF g.demo.status = S_deleted
            THEN [exc |-> DemoNotFoundException(id), rows |-> t, demo |-> NoDemo]
            ELSE LET d == SetAttrs(g.demo, demo_data)
                 IN IF d.name = NullStr
                    THEN [exc |-> InternalServerErrorException(id), rows |-> t, demo |-> NoDemo]
                    ELSE [exc |-> NoException, rows |-> [t EXCEPT ![id] = d], demo |-> d]

\* DemoRepository.update_status
RepoUpdateStatus(t, id, status) ==
    LET g == GetById(t, id)
    IN IF Raised(g) \/ ~g.found THEN RepoNotFound(t, id, g)
       ELSE IF g.demo.status = S_deleted
            THEN [exc |-> DemoNotFoundException(id), rows |-> t, demo |-> NoDemo]
            ELSE LET d == [g.demo EXCEPT !.status = status]
                 IN [exc |-> NoException, rows |-> [t EXCEPT ![id] = d], demo |-> d]

\* DemoRepository.update_is_active
RepoUpdateIsActiveHides(t, id, is_active) ==
    LET g == GetById(t, id)
    IN IF Raised(g) \/ ~g.found THEN RepoNotFound(t, id, g)
       ELSE LET d == [g.demo EXCEPT !.is_active = is_active,
                                    !.status = IF is_active THEN @ ELSE S_deleted]
            IN [exc |-> NoException, rows |-> [t EXCEPT ![id] = d], demo |-> d]
RepoUpdateIsActive(t, id, is_active) ==
    LET g == GetById(t, id)
    IN IF Raised(g) \/ ~g.found THEN RepoNotFound(t, id, g)
       ELSE LET d == [g.demo EXCEPT !.is_active = is_active]
            IN [exc |-> NoException, rows |-> [t EXCEPT ![id] = d], demo |-> d]

\* DemoRepository.delete (soft delete)
RepoDeleteAnyStatus(t, id) ==
    LET g == GetByIdNoDeletedCheck(t, id)
    IN IF ~g.found THEN RepoNotFound(t, id, g)
       ELSE LET d == [g.demo EXCEPT !.deleted_at = SetTime, !.deleted_by = UserId,
                                    !.status = S_deleted, !.is_active = FALSE]
            IN [exc |-> NoException, rows |-> [t EXCEPT ![id] = d], demo |-> d]
RepoDelete(t, id) ==
    LET g == GetById(t, id)
    IN IF Raised(g) \/ ~g.found THEN RepoNotFound(t, id, g)
       ELSE LET d == [g.demo EXCEPT !.deleted_at = SetTime, !.deleted_by = UserId,
                                    !.status = S_deleted, !.is_active = FALSE]
            IN [exc |-> NoException, rows |-> [t EXCEPT ![id] = d], demo |-> d]

(***************************************************************************)
(* BaseAppRepository.get_all: the filter tree, search and soft-delete      *)
(* predicate.  SQL predicates are three-valued: "T", "F" or "N" (NULL);    *)
(* a row is selected when the WHERE clause is "T".                         *)
(***************************************************************************)
TextColumns == {"name", "logo", "status", "error_message", "error_user_message"}
BoolColumns == {"is_active"}
DateColumns == {"created_at", "deleted_at"}
UuidColumns == {"demo_id", "deleted_by"}
ModelColumns == TextColumns \cup BoolColumns \cup DateColumns \cup UuidColumns
\* attributes of the mapped class that are not columns (declarative base)
NonColumnAttrs == {"__tablename__", "metadata"}

HasAttr(col) == col \in ModelColumns \cup NonColumnAttrs

\* OPERATOR_MAPPING.get(operator, operator)
map_frontend_operator(operator) ==
    CASE operator = "equal_to" -> "eq"
      [] operator = "not_equal_to" -> "ne"
      [] operator = "greater_than" -> "gt"
      [] operator = "less_than" -> "lt"
      [] operator = "greater_than_or_equal" -> "gte"
      [] operator = "less_than_or_equal" -> "lte"
      [] operator = "does_not_contain" -> "not_contains"
      [] operator = "starts_with" -> "startswith"
      [] operator = "ends_with" -> "endswith"
      [] operator = "is_not_empty" -> "not_empty"
      [] OTHER -> operator

Not3(a) == CASE a = "T" -> "F" [] a = "F" -> "T" [] OTHER -> "N"
AndAll(S) == IF "F" \in S THEN "F" ELSE IF "N" \in S THEN "N" ELSE "T"
OrAll(S) == IF "T" \in S THEN "T" ELSE IF "N" \in S THEN "N" ELSE "F"
Bool3(b) == IF b THEN "T" ELSE "F"
\* a comparison against a column value: NULL when the column is NULL
Cmp3(v, b) == IF v = NullStr THEN "N" ELSE Bool3(b)

Contains(h, n) == \E i \in 0..(Len(h) - Len(n)) : SubSeq(h, i + 1, i + Len(n)) = n
StartsWith(h, n) == Len(n) <= Len(h) /\ SubSeq(h, 1, Len(n)) = n
EndsWith(h, n) == Len(n) <= Len(h) /\ SubSeq(h, Len(h) - Len(n) + 1, Len(h)) = n

\* str(value) of a rule's value
S_True == <<"T", "r", "u", "e">>
S_False == <<"F", "a", "l", "s", "e">>
S_true == <<"t", "r", "u", "e">>
S_false == <<"f", "a", "l", "s", "e">>
StrValue(s) == [t |-> "str", s |-> s, b |-> FALSE]
BoolValue(b) == [t |-> "bool", s |-> <<>>, b |-> b]
StrOf(value) == IF value.t = "str" THEN value.s ELSE IF value.b THEN S_True ELSE S_False

TextOperators == {"is", "is_not", "as_it", "contains", "not_contains", "startswith",
                  "endswith", "is_empty", "not_empty"}
BoolOperators == {"is", "is_not", "is_empty", "not_empty"}

\* the text branch: cmp_func / cmp_value folding, LIKE and ILIKE
TextPart(operator, value, case_sensitive, v) ==
    LET sv == StrOf(value)
        cmp_func == IF case_sensitive THEN v ELSE Lower(v)
        cmp_value == IF case_sensitive THEN sv ELSE Lower(sv)
        hay == IF case_sensitive THEN v ELSE Lower(v)
        pat == IF case_sensitive THEN sv ELSE Lower(sv)
    IN CASE operator = "is" -> Cmp3(v, cmp_func = cmp_value)
         [] operator = "is_not" -> Cmp3(v, cmp_func # cmp_value)
         [] operator = "as_it" -> Cmp3(v, Lower(v) = cmp_value)
         [] operator = "contains" -> Cmp3(v, Contains(hay, pat))
         [] operator = "not_contains" -> Cmp3(v, ~Contains(hay, pat))
         [] operator = "startswith" -> Cmp3(v, StartsWith(hay, pat))
         [] operator = "endswith" -> Cmp3(v, EndsWith(hay, pat))
         [] operator = "is_empty" -> Bool3(v = NullStr)
         [] operator = "not_empty" -> Bool3(v # NullStr)

\* the boolean branch: 'true'/'false' strings and native booleans give
\* bool_value, anything else leaves it None; is_active is NOT NULL
BoolValueOf(value) ==
    IF value.t = "str"
    THEN IF Lower(value.s) = S_true THEN "true"
         ELSE IF Lower(value.s) = S_false THEN "false" ELSE "None"
    ELSE IF value.b THEN "true" ELSE "false"

IsBool(b, bool_value) ==
    CASE bool_value = "true" -> Bool3(b)
      [] bool_value = "false" -> Bool3(~b)
      [] OTHER -> "F"

BoolPart(operator, value, b) ==
    CASE operator = "is" -> IsBool(b, BoolValueOf(value))
      [] operator = "is_not" -> Not3(IsBool(b, BoolValueOf(value)))
      [] operator = "is_empty" -> "F"
      [] operator = "not_empty" -> "T"

\* the date branch: today = date.today() of the server clock
FirstToday == 3000
Today == DateOf(now)
DateOperators == {"today", "yesterday", "previous_day", "previous_7_days", "prev_7_days"}
RelativeOperators == {"previous", "current", "next"}

\* f.get("relativeDateRange") with its defaults
NoRange == [given |-> FALSE, periodType |-> "day", count |-> 1, includeToday |-> FALSE]
RelativeDateRange(periodType, count, includeToday) ==
    [given |-> TRUE, periodType |-> periodType, count |-> count, includeToday |-> includeToday]

\* count * 7, count * 30, count * 365
PeriodDays(period_type, count) ==
    CASE period_type = "day" -> count
      [] period_type = "week" -> count * 7
      [] period_type = "month" -> count * 30
      [] period_type = "year" -> count * 365

\* the period types for which the operator's branch assigns clause_part
PreviousPeriods == {"day", "week", "month", "year"}
CurrentPeriods == {"day", "week", "month"}
NextPeriods == {"day", "week", "month"}

RelativePresent(operator, rel_range) ==
    /\ rel_range.given
    /\ CASE operator = "previous" -> rel_range.periodType \in PreviousPeriods
         [] operator = "current" -> rel_range.periodType \in CurrentPeriods
         [] operator = "next" -> rel_range.periodType \in NextPeriods

\* operator "previous"
PreviousPartFromNow(r, d) ==
    LET days == PeriodDays(r.periodType, r.count)
    IN IF r.includeToday
       THEN d >= now - (days - 1) * TicksPerDay
       ELSE d >= now - days * TicksPerDay /\ d < Combine(Today, MinTime)
PreviousPart(r, d) ==
    LET days == PeriodDays(r.periodType, r.count)
    IN IF r.includeToday
       THEN d >= Combine(Today - (days - 1), MinTime)
       ELSE d >= Combine(Today - days, MinTime) /\ d < Combine(Today, MinTime)

\* operator "current": day and week (the calendar month is not modelled)
CurrentPartUpToToday(r, d) ==
    CASE r.periodType = "day" -> DateOf(d) = Today
      [] r.periodType = "week" ->
            LET start_of_week == Today - Weekday(Today)
            IN start_of_week <= DateOf(d) /\ DateOf(d) <= Today
CurrentPart(r, d) ==
    CASE r.periodType = "day" -> DateOf(d) = Today
      [] r.periodType = "week" ->
            LET start_of_week == Today - Weekday(Today)
                end_of_week == start_of_week + 6
            IN start_of_week <= DateOf(d) /\ DateOf(d) <= end_of_week

\* operator "next"
NextPart(r, d) ==
    LET days == PeriodDays(r.periodType, r.count)
    IN IF r.includeToday
       THEN d >= Combine(Today, MinTime) /\ d < Combine(Today + days, MinTime)
       ELSE d >= Combine(Today + 1, MinTime) /\ d < Combine(Today + days + 1, MinTime)

DatePart(operator, rel_range, d) ==
    IF d = NullTime THEN "N"
    ELSE CASE operator = "today" -> Bool3(DateOf(d) = Today)
           [] operator = "yesterday" -> Bool3(DateOf(d) = Today - 1)
           [] operator = "previous_day" -> Bool3(DateOf(d) = Today - 2)
           [] operator \in {"previous_7_days", "prev_7_days"} ->
                 Bool3(d >= Combine(Today - 7, MinTime))
           [] operator = "previous" -> Bool3(PreviousPart(rel_range, d))
           [] operator = "current" -> Bool3(CurrentPart(rel_range, d))
           [] operator = "next" -> Bool3(NextPart(rel_range, d))

\* columns a rule resolves to
RuleColumns(f) ==
    IF f.column = "search" /\ f.has_columns THEN f.columns ELSE <<f.column>>

\* clause_part is not None
PartPresent(f, col) ==
    LET operator == map_frontend_operator(f.operator)
    IN /\ HasAttr(col)
       /\ \/ col \in TextColumns /\ operator \in TextOperators
          \/ col \in BoolColumns /\ operator \in BoolOperators
          \/ col \in DateColumns /\ operator \in DateOperators
          \/ /\ col \in DateColumns
             /\ operator \in RelativeOperators
             /\ RelativePresent(operator, f.relativeDateRange)

PartEval(f, col, row) ==
    LET operator == map_frontend_operator(f.operator)
    IN CASE col \in TextColumns -> TextPart(operator, f.value, f.caseSensitive, row[col])
         [] col \in BoolColumns -> BoolPart(operator, f.value, row[col])
         [] col \in DateColumns -> DatePart(operator, f.relativeDateRange, row[col])

\* column_attr.type of an attribute that is not a column raises AttributeError
RuleRaises(f) ==
    \E i \in 1..Len(RuleColumns(f)) :
        HasAttr(RuleColumns(f)[i]) /\ RuleColumns(f)[i] \notin ModelColumns

PresentCols(f) ==
    {i \in 1..Len(RuleColumns(f)) : PartPresent(f, RuleColumns(f)[i])}

\* clause is not None
RulePresent(f) == PresentCols(f) # {}

\* the rule's clause on a row: parts joined by the rule's logical, then negated
RuleEval(f, row) ==
    LET parts == {PartEval(f, RuleColumns(f)[i], row) : i \in PresentCols(f)}
        clause == IF f.logical = "or" THEN OrAll(parts) ELSE AndAll(parts)
    IN IF f.logical = "not" THEN Not3(clause) ELSE clause

UpperChar(c) ==
    CASE c = "a" -> "A"
      [] c = "n" -> "N"
      [] c = "d" -> "D"
      [] c = "o" -> "O"
      [] c = "r" -> "R"
      [] c = "y" -> "Y"
      [] OTHER -> c
Upper(s) == [i \in 1..Len(s) |-> UpperChar(s[i])]

L_AND == <<"A", "N", "D">>
L_OR == <<"O", "R">>
L_ANY == <<"A", "N", "Y">>

NoFilters == [kind |-> "none", Filters |-> <<>>, logic |-> L_AND]
ListFilters(rules) == [kind |-> "list", Filters |-> rules, logic |-> L_AND]
DictFilters(rules, logic) == [kind |-> "dict", Filters |-> rules, logic |-> logic]

FilterRules(filters) == IF filters.kind = "none" THEN <<>> ELSE filters.Filters
OverallLogicRuleOr(filters) ==
    IF filters.kind = "dict" THEN filters.logic
    ELSE IF \E i \in 1..Len(filters.Filters) : filters.Filters[i].logical = "or"
         THEN L_OR ELSE L_AND
OverallLogic(filters) == IF filters.kind = "dict" THEN filters.logic ELSE L_AND

WherePresent(filters) ==
    \E i \in 1..Len(FilterRules(filters)) : RulePresent(FilterRules(filters)[i])

WhereEvalAlwaysAnd(filters, row) ==
    LET rules == FilterRules(filters)
    IN AndAll({RuleEval(rules[i], row) : i \in {j \in 1..Len(rules) : RulePresent(rules[j])}})
WhereEval(filters, row) ==
    LET rules == FilterRules(filters)
        vals == {RuleEval(rules[i], row) : i \in {j \in 1..Len(rules) : RulePresent(rules[j])}}
    IN IF Upper(OverallLogic(filters)) \in {L_ANY, L_OR} THEN OrAll(vals) ELSE AndAll(vals)

\* search: ILIKE over every text column, ORed
SearchEval(search, row) ==
    OrAll({Cmp3(row[c], Contains(Lower(row[c]), Lower(search))) : c \in TextColumns})

SoftDeleteEval(row) == Bool3(row.status # S_deleted)

\* final_clauses, ANDed
FinalEvalNoSoftDelete(filters, search, row) ==
    AndAll((IF WherePresent(filters) THEN {WhereEval(filters, row)} ELSE {})
           \cup (IF search # <<>> THEN {SearchEval(search, row)} ELSE {}))
FinalEval(filters, search, row) ==
    AndAll((IF WherePresent(filters) THEN {WhereEval(filters, row)} ELSE {})
           \cup (IF search # <<>> THEN {SearchEval(search, row)} ELSE {})
           \cup {SoftDeleteEval(row)})

Matching(t, filters, search) ==
    {i \in DOMAIN t : FinalEval(filters, search, t[i]) = "T"}

(***************************************************************************)
(* BaseAppRepository.get_all: ordering, pagination, the two queries.       *)
(* scan is the order in which the storage engine yields rows when the      *)
(* query has no ORDER BY, and among rows with equal sort keys.             *)
(***************************************************************************)
\* order_by.startswith("-") and order_by[1:], on the order_by values in use
DescOrder(order_by) == order_by \in {"-created_at", "-demo_id", "-nosuch"}
FieldName(order_by) ==
    CASE order_by = "-created_at" -> "created_at"
      [] order_by = "-demo_id" -> "demo_id"
      [] order_by = "-nosuch" -> "nosuch"
      [] OTHER -> order_by

\* the ORDER BY of the data query: <<column, descending>> or none
Ordering(order_by) ==
    IF order_by # ""
    THEN IF HasAttr(FieldName(order_by))
         THEN [ordered |-> TRUE, col |-> FieldName(order_by), desc |-> DescOrder(order_by)]
         ELSE [ordered |-> FALSE, col |-> "", desc |-> FALSE]
    ELSE [ordered |-> TRUE, col |-> "created_at", desc |-> TRUE]

PosIn(scan, i) == CHOOSE k \in 1..Len(scan) : scan[k] = i

Before(t, scan, o, a, b) ==
    IF o.ordered /\ t[a][o.col] # t[b][o.col]
    THEN IF o.desc THEN t[a][o.col] > t[b][o.col] ELSE t[a][o.col] < t[b][o.col]
    ELSE PosIn(scan, a) < PosIn(scan, b)

\* the selected rows in result order
Ordered(t, S, scan, o) ==
    [k \in 1..Cardinality(S) |->
        CHOOSE a \in S : Cardinality({b \in S : Before(t, scan, o, b, a)}) = k - 1]

\* OFFSET skip LIMIT limit
WindowNoOffset(seq, skip, limit) == SubSeq(seq, 1, Min2(Len(seq), limit))
Window(seq, skip, limit) == SubSeq(seq, skip + 1, Min2(Len(seq), skip + limit))

\* ceil(a / b) for b > 0
FloorDiv(a, b) == a \div b
CeilDiv(a, b) == (a + b - 1) \div b

Pagination(total_count, skip, limit, total_pages) ==
    [total_count |-> total_count, offset |-> skip, limit |-> limit, total_pages |-> total_pages]
NoPagination == Pagination(0, 0, 0, 0)

\* the count query
Count(t, filters, search) == Cardinality(Matching(t, filters, search))

\* get_all.  fault names the query the storage engine fails ("none", "count",
\* "data"); the engine also rejects a negative OFFSET or LIMIT.  A rule that
\* names a non-column attribute raises before any query is issued.
\* the mapping returned when both queries succeed
GetAllResult(t, total_count, ids, skip, limit) ==
    [exc |-> "none",
     data |-> [k \in 1..Len(ids) |-> t[ids[k]]],
     pagination |-> Pagination(total_count, skip, limit,
                               IF limit # 0 THEN CeilDiv(total_count, limit) ELSE 1),
     queries |-> 2]

\* except Exception: raise InternalServerErrorException, after `queries`
\* statements were sent to the storage engine
QueryFailureSwallowed(queries) ==
    [exc |-> "none", data |-> <<>>, pagination |-> NoPagination, queries |-> queries]
QueryFailure(queries) ==
    [exc |-> "InternalServerErrorException", data |-> <<>>, pagination |-> NoPagination,
     queries |-> queries]

GetAll(t, filters, search, order_by, skip, limit, scan, fault) ==
    IF \E i \in 1..Len(FilterRules(filters)) : RuleRaises(FilterRules(filters)[i])
    THEN [exc |-> "AttributeError", data |-> <<>>, pagination |-> NoPagination, queries |-> 0]
    ELSE IF fault = "count"
    THEN QueryFailure(1)
    ELSE IF fault = "data" \/ skip < 0 \/ limit < 0
    THEN QueryFailure(2)
    ELSE GetAllResult(t, Count(t, filters, search),
                      Window(Ordered(t, Matching(t, filters, search), scan,
                                     Ordering(order_by)), skip, limit),
                      skip, limit)

(***************************************************************************)
(* FileHelper: the logo store.  An upload is "png" (accepted), "exe"       *)
(* (extension not allowed), "big" (over max_file_size) or "corrupt"        *)
(* (processing fails); every failure is raised as fastapi.HTTPException.   *)
(***************************************************************************)
NoFile == "none"

DigitChar(n) ==
    CASE n = 0 -> "0" [] n = 1 -> "1" [] n = 2 -> "2" [] n = 3 -> "3" [] n = 4 -> "4"
      [] n = 5 -> "5" [] n = 6 -> "6" [] n = 7 -> "7" [] n = 8 -> "8" [] OTHER -> "9"

\* _get_logo_url(_generate_filename(...)): a fresh url per upload
LogoUrl(n) == <<"/", "m", DigitChar(n)>>

\* upload_logo
UploadLogo(st, file) ==
    IF file = "png"
    THEN [exc |-> "none", url |-> LogoUrl(st.nextFile),
          files |-> st.files \cup {LogoUrl(st.nextFile)}, nextFile |-> st.nextFile + 1]
    ELSE [exc |-> "HTTPException", url |-> NullStr, files |-> st.files, nextFile |-> st.nextFile]

\* delete_logo: unlinks the file when it exists, never raises
DeleteLogo(fs, logo_url) == IF logo_url = NullStr THEN fs ELSE fs \ {logo_url}

(***************************************************************************)
(* DemoService behind its endpoints.  st is the stored state               *)
(* [rows, files, nextFile]; the result carries the new stored state, the   *)
(* exception that left the service (or "none"), the HTTP status the        *)
(* endpoint answers with, and the entity returned.                         *)
(***************************************************************************)
Result(st, exc, code, data) ==
    [rows |-> st.rows, files |-> st.files, nextFile |-> st.nextFile,
     exc |-> exc, status_code |-> code, data |-> data]

\* DemoCreateSchema / DemoUpdateSchema: strip, then min_length 1, max_length 200
NameValid(name) == Len(name) >= 1 /\ Len(name) <= NameMaxLength

\* POST /demo/create/
CreateDemo(st, raw_name, file) ==
    LET name == Strip(raw_name)
    IN IF ~NameValid(name)
       THEN Result(st, "ValidationError", HTTP_500_INTERNAL_SERVER_ERROR, <<>>)
       ELSE LET t1 == RepoInsert(st.rows, name, NullStr)
                id == Len(t1)
                demo == [t1[id] EXCEPT !.status = S_created]
                st1 == [st EXCEPT !.rows = t1]
            IN IF file = NoFile
               THEN Result(st1, "none", HTTP_201_CREATED, <<demo>>)
               ELSE LET up == UploadLogo(st1, file)
                    IN IF up.exc # "none"
                       THEN Result(st1, up.exc, HTTP_500_INTERNAL_SERVER_ERROR, <<>>)
                       ELSE LET u == RepoUpdate(t1, id, {<<"logo", up.url>>})
                                st2 == [rows |-> u.rows, files |-> up.files,
                                        nextFile |-> up.nextFile]
                            IN IF Raised(u)
                               THEN Result(st2, u.exc.type, HTTP_500_INTERNAL_SERVER_ERROR, <<>>)
                               ELSE Result(st2, "none", HTTP_201_CREATED, <<u.demo>>)

\* GET /demo/read/{demo_id}/
ReadDemo(st, id) ==
    LET g == GetById(st.rows, id)
    IN IF Raised(g) \/ ~g.found
       THEN Result(st, "DemoNotFoundException", HTTP_404_NOT_FOUND, <<>>)
       ELSE Result(st, "none", HTTP_200_OK, <<g.demo>>)

\* the endpoint's except clauses of the four mutating routes below
MutatorStatus(exc) ==
    IF exc.type = "DemoNotFoundException" THEN exc.status_code ELSE HTTP_500_INTERNAL_SERVER_ERROR

\* PATCH /demo/update/{demo_id}/ ; raw_name is NullStr when the form omits name.
\* The endpoint always passes name to DemoUpdateSchema, so exclude_unset keeps it.
UpdateDemo(st, id, raw_name, file) ==
    LET name == IF raw_name = NullStr THEN NullStr ELSE Strip(raw_name)
        g == GetById(st.rows, id)
    IN IF name # NullStr /\ ~NameValid(name)
       THEN Result(st, "ValidationError", HTTP_500_INTERNAL_SERVER_ERROR, <<>>)
       ELSE IF Raised(g) \/ ~g.found
       THEN Result(st, "DemoNotFoundException", HTTP_404_NOT_FOUND, <<>>)
       ELSE LET fs1 == IF file # NoFile THEN DeleteLogo(st.files, g.demo.logo) ELSE st.files
                st1 == [st EXCEPT !.files = fs1]
                up == IF file # NoFile THEN UploadLogo(st1, file)
                      ELSE [exc |-> "none", url |-> NullStr, files |-> fs1,
                            nextFile |-> st.nextFile]
                payload_dict == {<<"name", name>>, <<"status", S_updated>>}
                                \cup (IF file # NoFile /\ up.exc = "none"
                                      THEN {<<"logo", up.url>>} ELSE {})
            IN IF up.exc # "none"
               THEN Result(st1, up.exc, HTTP_500_INTERNAL_SERVER_ERROR, <<>>)
               ELSE LET u == RepoUpdate(st.rows, id, payload_dict)
                        st2 == [rows |-> u.rows, files |-> up.files, nextFile |-> up.nextFile]
                    IN IF Raised(u)
                       THEN Result(st2, u.exc.type, MutatorStatus(u.exc), <<>>)
                       ELSE Result(st2, "none", HTTP_200_OK, <<u.demo>>)

\* PATCH /demo/update/status/{demo_id}/ ; NullStr is an absent message
UpdateDemoStatus(st, id, status, error_message, error_user_message) ==
    LET s == RepoUpdateStatus(st.rows, id, status)
        update_data == (IF error_message # NullStr
                        THEN {<<"error_message", error_message>>} ELSE {})
                       \cup (IF error_user_message # NullStr
                             THEN {<<"error_user_message", error_user_message>>} ELSE {})
    IN IF Raised(s)
       THEN Result(st, s.exc.type, MutatorStatus(s.exc), <<>>)
       ELSE IF update_data = {}
       THEN Result([st EXCEPT !.rows = s.rows], "none", HTTP_200_OK, <<s.demo>>)
       ELSE LET u == RepoUpdate(s.rows, id, update_data)
            IN IF Raised(u)
               THEN Result([st EXCEPT !.rows = u.rows], u.exc.type, MutatorStatus(u.exc), <<>>)
               ELSE Result([st EXCEPT !.rows = u.rows], "none", HTTP_200_OK, <<u.demo>>)

\* PATCH /demo/update/is-active/{demo_id}/
UpdateDemoIsActive(st, id, is_active) ==
    LET u == RepoUpdateIsActive(st.rows, id, is_active)
    IN IF Raised(u)
       THEN Result(st, u.exc.type, MutatorStatus(u.exc), <<>>)
       ELSE Result([st EXCEPT !.rows = u.rows], "none", HTTP_200_OK, <<u.demo>>)

\* DELETE /demo/delete/{demo_id}/
DeleteDemo(st, id) ==
    LET d == RepoDelete(st.rows, id)
    IN IF Raised(d)
       THEN Result(st, d.exc.type, MutatorStatus(d.exc), <<>>)
       ELSE Result([st EXCEPT !.rows = d.rows], "none", HTTP_200_OK, <<>>)

(***************************************************************************)
(* GET /demos/ : get_list_params, ListParamsSchema, list_workspaces,       *)
(* DemoService.list_all.                                                   *)
(* The filters query parameter is described by its JSON syntax: omitted,   *)
(* "empty" (the empty string), "malformed" (json.loads raises), "scalar"   *)
(* (valid JSON that is neither list nor object), "list" of rules, or       *)
(* "object" with or without the keys Filters and logic.                    *)
(***************************************************************************)
RawFilters(syntax, has_Filters, rules, logic) ==
    [syntax |-> syntax, has_Filters |-> has_Filters, rules |-> rules, logic |-> logic]
RawOmitted == RawFilters("omitted", FALSE, <<>>, L_AND)

\* json.loads
JsonLoads(raw) ==
    IF raw.syntax = "malformed"
    THEN [exc |-> "JSONDecodeError", type |-> "none"]
    ELSE [exc |-> "none",
          type |-> CASE raw.syntax = "list" -> "list"
                     [] raw.syntax = "object" -> "dict"
                     [] OTHER -> "other"]

\* get_list_params up to the construction of the schema: parsed_filters
ParsedFiltersNoCatch(raw) ==
    IF raw.syntax \in {"omitted", "empty"}
    THEN [exc |-> "none", filters |-> NoFilters]
    ELSE LET data == JsonLoads(raw)
         IN IF data.exc # "none" THEN [exc |-> data.exc, filters |-> NoFilters]
            ELSE IF data.type = "dict" /\ raw.has_Filters
            THEN [exc |-> "none", filters |-> DictFilters(raw.rules, raw.logic)]
            ELSE IF data.type = "list"
            THEN [exc |-> "none", filters |-> DictFilters(raw.rules, L_AND)]
            ELSE [exc |-> "none", filters |-> NoFilters]
ParsedFilters(raw) ==
    IF raw.syntax \in {"omitted", "empty"}
    THEN [exc |-> "none", filters |-> NoFilters]
    ELSE LET data == JsonLoads(raw)
         IN IF data.exc # "none" THEN [exc |-> "none", filters |-> NoFilters]
            ELSE IF data.type = "dict" /\ raw.has_Filters
            THEN [exc |-> "none", filters |-> DictFilters(raw.rules, raw.logic)]
            ELSE IF data.type = "list"
            THEN [exc |-> "none", filters |-> DictFilters(raw.rules, L_AND)]
            ELSE [exc |-> "none", filters |-> NoFilters]

\* ListParamsSchema: offset and limit are plain ints; filters is
\* Optional[List[str]], which a dict does not validate against
ListParamsSchemaValid(offset, limit, filters) == filters.kind = "none"

\* get_list_params
GetListParams(req) ==
    LET p == ParsedFilters(req.filters)
    IN IF p.exc # "none" THEN [exc |-> p.exc, filters |-> NoFilters]
       ELSE IF ~ListParamsSchemaValid(req.offset, req.limit, p.filters)
       THEN [exc |-> "ValidationError", filters |-> NoFilters]
       ELSE [exc |-> "none", filters |-> p.filters]

RepoCall(called, filters, skip, limit, total_count) ==
    [called |-> called, filters |-> filters, skip |-> skip, limit |-> limit,
     total_count |-> total_count]
NoRepoCall == RepoCall(FALSE, NoFilters, 0, 0, 0)

\* list_workspaces: params.filters is None whenever the dependency returned,
\* so the service is called with filters = None; list_all returns the list
\* of entities only and the endpoint counts that list
ListResponse(req, result) ==
    LET repo == RepoCall(TRUE, NoFilters, req.offset, req.limit,
                         result.pagination.total_count)
        total_count == Len(result.data)
        total_pages == IF total_count > 0
                       THEN (total_count + req.limit - 1) \div req.limit ELSE 0
    IN IF result.exc # "none"
       THEN [exc |-> result.exc, status_code |-> HTTP_500_INTERNAL_SERVER_ERROR,
             data |-> <<>>, pagination |-> NoPagination, repo |-> repo]
       ELSE [exc |-> "none", status_code |-> HTTP_200_OK, data |-> result.data,
             pagination |-> Pagination(total_count, req.offset, req.limit, total_pages),
             repo |-> repo]

ListWorkspaces(t, req) ==
    LET params == GetListParams(req)
    IN IF params.exc # "none"
       THEN [exc |-> params.exc, status_code |-> HTTP_500_INTERNAL_SERVER_ERROR,
             data |-> <<>>, pagination |-> NoPagination, repo |-> NoRepoCall]
       ELSE ListResponse(req, GetAll(t, NoFilters, req.search, req.order_by, req.offset,
                                     req.limit, req.scan, req.fault))

(***************************************************************************)
(* The service specification: requests served one after the other.         *)
(* resp is the last request with its response; ops counts the mutating     *)
(* requests; deleted_ok records the ids whose delete request succeeded.    *)
(***************************************************************************)
ListReq(offset, limit, order_by, search, filters, scan, fault) ==
    [offset |-> offset, limit |-> limit, order_by |-> order_by, search |-> search,
     filters |-> filters, scan |-> scan, fault |-> fault]
NoReq == ListReq(0, 0, "", <<>>, RawOmitted, <<>>, "none")

Resp(op, id, file, r) ==
    [op |-> op, demo_id |-> id, file |-> file, status_code |-> r.status_code,
     exc |-> r.exc, data |-> r.data, pagination |-> NoPagination, repo |-> NoRepoCall,
     req |-> NoReq]
ListResp(req, r) ==
    [op |-> "list", demo_id |-> 0, file |-> NoFile, status_code |-> r.status_code,
     exc |-> r.exc, data |-> r.data, pagination |-> r.pagination, repo |-> r.repo,
     req |-> req]
NoResp ==
    [op |-> "none", demo_id |-> 0, file |-> NoFile, status_code |-> HTTP_200_OK,
     exc |-> "none", data |-> <<>>, pagination |-> NoPagination, repo |-> NoRepoCall,
     req |-> NoReq]

NoQuery ==
    [filters |-> NoFilters, search |-> <<>>, order_by |-> "", skip |-> 0, limit |-> 0,
     scan |-> <<>>, fault |-> "none", issued |-> FALSE,
     out |-> [exc |-> "none", data |-> <<>>, pagination |-> NoPagination, queries |-> 0]]

\* a request-scoped database session (get_async_db) and what it has loaded
Sessions == 1..MaxSessions
Idle ==
    [pc |-> "idle", op |-> "none", id |-> 0, loaded |-> NoDemo, attrs |-> {},
     skip |-> 0, limit |-> 0, counted |-> {}, total_count |-> 0, data |-> <<>>,
     exc |-> "none"]
NoSessions == [s \in Sessions |-> Idle]

Stored == [rows |-> rows, files |-> files, nextFile |-> nextFile]

Store(r) ==
    /\ rows' = r.rows
    /\ files' = r.files
    /\ nextFile' = r.nextFile

\* Read-only requests change no stored state and their responses are read by
\* no handler, so every stored state is explored with each read-only request
\* as its last request: a request is taken only when the last one mutated.
ReadOnlyOps == {"read", "list"}
AtRest == resp.op \notin ReadOnlyOps

DemoIds == 1..MaxDemos
CreateNames == {<<"a">>, <<" ", "B", " ">>, <<" ">>}
UpdateNames == {NullStr, <<"b", " ">>}
RequestFiles == {NoFile, "png", "exe", "corrupt"}
Messages == {NullStr, <<"e">>}

Init ==
    /\ rows = <<>>
    /\ files = {}
    /\ nextFile = 1
    /\ ops = 0
    /\ resp = NoResp
    /\ deleted_ok = {}
    /\ qres = NoQuery
    /\ now = Combine(FirstToday, 1)
    /\ sess = NoSessions

Create ==
    /\ AtRest
    /\ ops < MaxOps
    /\ Len(rows) < MaxDemos
    /\ \E raw_name \in CreateNames, file \in RequestFiles :
          LET r == CreateDemo(Stored, raw_name, file)
          IN /\ Store(r)
             /\ resp' = Resp("create", Len(r.rows), file, r)
    /\ ops' = ops + 1
    /\ UNCHANGED <<deleted_ok, qres, now, sess>>

Read ==
    /\ AtRest
    /\ \E id \in DemoIds :
          LET r == ReadDemo(Stored, id)
          IN /\ Store(r)
             /\ resp' = Resp("read", id, NoFile, r)
    /\ UNCHANGED <<ops, deleted_ok, qres, now, sess>>

Update ==
    /\ AtRest
    /\ ops < MaxOps
    /\ \E id \in DemoIds, raw_name \in UpdateNames, file \in RequestFiles :
          LET r == UpdateDemo(Stored, id, raw_name, file)
          IN /\ Store(r)
             /\ resp' = Resp("update", id, file, r)
    /\ ops' = ops + 1
    /\ UNCHANGED <<deleted_ok, qres, now, sess>>

UpdateStatus ==
    /\ AtRest
    /\ ops < MaxOps
    /\ \E id \in DemoIds, status \in DemoStatus, m \in Messages :
          LET r == UpdateDemoStatus(Stored, id, status, m, NullStr)
          IN /\ Store(r)
             /\ resp' = Resp("update_status", id, NoFile, r)
    /\ ops' = ops + 1
    /\ UNCHANGED <<deleted_ok, qres, now, sess>>

UpdateIsActive ==
    /\ AtRest
    /\ ops < MaxOps
    /\ \E id \in DemoIds, is_active \in BOOLEAN :
          LET r == UpdateDemoIsActive(Stored, id, is_active)
          IN /\ Store(r)
             /\ resp' = Resp("update_is_active", id, NoFile, r)
    /\ ops' = ops + 1
    /\ UNCHANGED <<deleted_ok, qres, now, sess>>

Delete ==
    /\ AtRest
    /\ ops < MaxOps
    /\ \E id \in DemoIds :
          LET r == DeleteDemo(Stored, id)
          IN /\ Store(r)
             /\ resp' = Resp("delete", id, NoFile, r)
             /\ deleted_ok' = IF r.exc = "none" THEN deleted_ok \cup {id} ELSE deleted_ok
    /\ ops' = ops + 1
    /\ UNCHANGED <<qres, now, sess>>

\* rules a client may send in the filters parameter
Rule(column, operator, value, logical, caseSensitive) ==
    [column |-> column, operator |-> operator, value |-> value, logical |-> logical,
     caseSensitive |-> caseSensitive, has_columns |-> FALSE, columns |-> <<>>,
     relativeDateRange |-> NoRange]
SearchRule(columns, operator, value, logical) ==
    [column |-> "search", operator |-> operator, value |-> value, logical |-> logical,
     caseSensitive |-> FALSE, has_columns |-> TRUE, columns |-> columns,
     relativeDateRange |-> NoRange]
DateRule(column, operator, rel_range) ==
    [column |-> column, operator |-> operator, value |-> StrValue(<<>>), logical |-> "and",
     caseSensitive |-> FALSE, has_columns |-> FALSE, columns |-> <<>>,
     relativeDateRange |-> rel_range]

R_status_is_created == Rule("status", "is", StrValue(S_created), "and", FALSE)

RequestFilters ==
    {RawOmitted,
     RawFilters("empty", FALSE, <<>>, L_AND),
     RawFilters("malformed", FALSE, <<>>, L_AND),
     RawFilters("scalar", FALSE, <<>>, L_AND),
     RawFilters("object", FALSE, <<>>, L_AND),
     RawFilters("list", FALSE, <<>>, L_AND),
     RawFilters("list", FALSE, <<R_status_is_created>>, L_AND),
     RawFilters("object", TRUE, <<R_status_is_created>>, L_OR)}

Offsets == {-1, 0, 1}
Limits == {0, 1, 2, LimitMax, LimitMax + 1}
Scans == Permutations(DOMAIN rows)

\* GET /demos/ with the paging parameters varied
ListPage ==
    /\ AtRest
    /\ \E offset \in Offsets, limit \in Limits, scan \in Scans :
          LET req == ListReq(offset, limit, "-created_at", <<>>, RawOmitted, scan, "none")
          IN resp' = ListResp(req, ListWorkspaces(rows, req))
    /\ UNCHANGED <<rows, files, nextFile, ops, deleted_ok, qres, now, sess>>

\* GET /demos/ with filters, search and order_by varied
ListFiltered ==
    /\ AtRest
    /\ \E filters \in RequestFilters, search \in {<<>>, <<"A">>},
          order_by \in {"-created_at", "created_at", "", "nosuch"}, scan \in Scans,
          fault \in {"none", "count", "data"} :
          LET req == ListReq(0, LimitDefault, order_by, search, filters, scan, fault)
          IN resp' = ListResp(req, ListWorkspaces(rows, req))
    /\ UNCHANGED <<rows, files, nextFile, ops, deleted_ok, qres, now, sess>>

Next ==
    \/ Create
    \/ Read
    \/ Update
    \/ UpdateStatus
    \/ UpdateIsActive
    \/ Delete
    \/ ListPage
    \/ ListFiltered

Spec == Init /\ [][Next]_vars

(***************************************************************************)
(* The lifecycle specification: the request sequence of the endpoint test  *)
(* suite on one entity - create, read, update, update status, update       *)
(* is_active, delete - each request well-formed; ops is the number of      *)
(* requests served and resp.demo_id the entity the sequence is about.      *)
(***************************************************************************)
LcNames == {<<"a">>, <<" ", "B", " ">>}
LcNewNames == {<<"b", " ">>, <<"c">>}
LcFiles == {NoFile, "png"}

LInit ==
    /\ rows \in {<<>>, <<DemoModel(1, <<"x">>, NullStr, 1)>>}
    /\ files = {}
    /\ nextFile = 1
    /\ ops = 0
    /\ resp = NoResp
    /\ deleted_ok = {}
    /\ qres = NoQuery
    /\ now = Combine(FirstToday, 1)
    /\ sess = NoSessions

LcCreate ==
    /\ ops = 0
    /\ \E raw_name \in LcNames, file \in LcFiles :
          LET r == CreateDemo(Stored, raw_name, file)
          IN /\ Store(r)
             /\ resp' = Resp("create", Len(r.rows), file, r)
    /\ ops' = 1
    /\ UNCHANGED <<deleted_ok, qres, now, sess>>

LcRead ==
    /\ ops = 1
    /\ LET r == ReadDemo(Stored, resp.demo_id)
       IN /\ Store(r)
          /\ resp' = Resp("read", resp.demo_id, NoFile, r)
    /\ ops' = 2
    /\ UNCHANGED <<deleted_ok, qres, now, sess>>

LcUpdate ==
    /\ ops = 2
    /\ \E raw_name \in LcNewNames, file \in LcFiles :
          LET r == UpdateDemo(Stored, resp.demo_id, raw_name, file)
          IN /\ Store(r)
             /\ resp' = Resp("update", resp.demo_id, file, r)
    /\ ops' = 3
    /\ UNCHANGED <<deleted_ok, qres, now, sess>>

LcUpdateStatus ==
    /\ ops = 3
    /\ \E m \in Messages, um \in Messages :
          LET r == UpdateDemoStatus(Stored, resp.demo_id, S_updated, m, um)
          IN /\ Store(r)
             /\ resp' = Resp("update_status", resp.demo_id, NoFile, r)
    /\ ops' = 4
    /\ UNCHANGED <<deleted_ok, qres, now, sess>>

LcUpdateIsActive ==
    /\ ops = 4
    /\ LET r == UpdateDemoIsActive(Stored, resp.demo_id, FALSE)
       IN /\ Store(r)
          /\ resp' = Resp("update_is_active", resp.demo_id, NoFile, r)
    /\ ops' = 5
    /\ UNCHANGED <<deleted_ok, qres, now, sess>>

LcDelete ==
    /\ ops = 5
    /\ LET r == DeleteDemo(Stored, resp.demo_id)
       IN /\ Store(r)
          /\ resp' = Resp("delete", resp.demo_id, NoFile, r)
          /\ deleted_ok' = IF r.exc = "none" THEN deleted_ok \cup {resp.demo_id}
                           ELSE deleted_ok
    /\ ops' = 6
    /\ UNCHANGED <<qres, now, sess>>

LNext ==
    \/ LcCreate
    \/ LcRead
    \/ LcUpdate
    \/ LcUpdateStatus
    \/ LcUpdateIsActive
    \/ LcDelete

SpecLifecycle == LInit /\ [][LNext]_vars

(***************************************************************************)
(* The concurrent specification: requests served at the same time, each    *)
(* with its own session on the same database.  The engine runs no          *)
(* isolation level of its own, so every statement reads the rows committed *)
(* when it executes (PostgreSQL READ COMMITTED), and no row is locked      *)
(* between a session's SELECT and its commit.  rows is the committed       *)
(* table; sess[s] is what session s has read so far.                       *)
(***************************************************************************)
\* the attributes a repository method assigns on the loaded entity
MutationRequests ==
    {[op |-> "update", attrs |-> {<<"name", <<"b">>>>, <<"status", S_updated>>}],
     [op |-> "update_status", attrs |-> {<<"status", S_updated>>}],
     [op |-> "update_is_active", attrs |-> {<<"is_active", FALSE>>}],
     [op |-> "delete", attrs |-> {<<"deleted_at", SetTime>>, <<"deleted_by", UserId>>,
                                 <<"status", S_deleted>>, <<"is_active", FALSE>>}]}

\* the unit of work writes the attributes whose value differs from the loaded one
Dirty(loaded, attrs) == {p \in attrs : loaded[p[1]] # p[2]}

\* UPDATE demo SET <dirty attributes> WHERE demo_id = id ; COMMIT
Flush(t, id, loaded, attrs) == [t EXCEPT ![id] = SetAttrs(@, Dirty(loaded, attrs))]

CInit ==
    /\ rows = <<DemoModel(1, <<"a">>, NullStr, 1)>>
    /\ files = {}
    /\ nextFile = 1
    /\ ops = 0
    /\ resp = NoResp
    /\ deleted_ok = {}
    /\ qres = NoQuery
    /\ now = Combine(FirstToday, 1)
    /\ sess = NoSessions

\* get_by_id at the start of update, update_status, update_is_active, delete
CRead ==
    /\ \E s \in Sessions, id \in DemoIds, req \in MutationRequests :
          /\ sess[s].pc = "idle"
          /\ LET g == GetById(rows, id)
             IN sess' = [sess EXCEPT ![s] =
                    IF Raised(g) \/ ~g.found
                    THEN [@ EXCEPT !.pc = "done", !.op = req.op, !.id = id,
                                   !.exc = "DemoNotFoundException"]
                    ELSE [@ EXCEPT !.pc = "loaded", !.op = req.op, !.id = id,
                                   !.loaded = g.demo, !.attrs = req.attrs]]
    /\ UNCHANGED <<rows, files, nextFile, ops, resp, deleted_ok, qres, now>>

\* the setattr calls and db.commit() of the same methods
CCommit ==
    /\ \E s \in Sessions :
          /\ sess[s].pc = "loaded"
          /\ rows' = Flush(rows, sess[s].id, sess[s].loaded, sess[s].attrs)
          /\ deleted_ok' = IF sess[s].op = "delete" THEN deleted_ok \cup {sess[s].id}
                           ELSE deleted_ok
          /\ sess' = [sess EXCEPT ![s].pc = "done"]
    /\ UNCHANGED <<files, nextFile, ops, resp, qres, now>>

\* insert: db.add and db.commit()
CInsert ==
    /\ Len(rows) < MaxDemos
    /\ \E s \in Sessions :
          /\ sess[s].pc = "idle"
          /\ rows' = RepoInsert(rows, <<"c">>, NullStr)
          /\ sess' = [sess EXCEPT ![s] = [@ EXCEPT !.pc = "done", !.op = "create",
                                                    !.id = Len(rows) + 1]]
    /\ UNCHANGED <<files, nextFile, ops, resp, deleted_ok, qres, now>>

\* get_all: await self.db.execute(count_query)
CCount ==
    /\ \E s \in Sessions, skip \in 0..1, limit \in 1..MaxDemos :
          /\ sess[s].pc = "idle"
          /\ sess' = [sess EXCEPT ![s] =
                 [@ EXCEPT !.pc = "counted", !.op = "list", !.skip = skip, !.limit = limit,
                           !.counted = Matching(rows, NoFilters, <<>>),
                           !.total_count = Count(rows, NoFilters, <<>>)]]
    /\ UNCHANGED <<rows, files, nextFile, ops, resp, deleted_ok, qres, now>>

\* get_all: await self.db.execute(query) and the returned mapping
CData ==
    /\ \E s \in Sessions :
          /\ sess[s].pc = "counted"
          /\ sess' = [sess EXCEPT ![s] =
                 [@ EXCEPT !.pc = "done",
                           !.data = GetAllResult(rows, sess[s].total_count,
                                        Window(Ordered(rows, Matching(rows, NoFilters, <<>>),
                                                       [i \in DOMAIN rows |-> i],
                                                       Ordering("")),
                                               sess[s].skip, sess[s].limit),
                                        sess[s].skip, sess[s].limit).data]]
    /\ UNCHANGED <<rows, files, nextFile, ops, resp, deleted_ok, qres, now>>

CNext ==
    \/ CRead
    \/ CCommit
    \/ CInsert
    \/ CCount
    \/ CData

SpecConc == CInit /\ [][CNext]_vars

(***************************************************************************)
(* The query specification: get_all as a function of a stored table and    *)
(* its arguments.  QInit draws a table the service can produce; each       *)
(* action applies get_all once and records the call in qres.               *)
(***************************************************************************)
QRow(name, logo, status, is_active, deleted_at, created_at, error_message) ==
    [DemoModel(0, name, logo, created_at) EXCEPT
        !.status = status, !.is_active = is_active, !.deleted_at = deleted_at,
        !.deleted_by = IF deleted_at = NullTime THEN NoUser ELSE UserId,
        !.error_message = error_message]

QRowSamples ==
    {QRow(<<"a", "B">>, NullStr, S_created, TRUE, NullTime, Combine(Today, MinTime), NullStr),
     QRow(<<"b">>, LogoUrl(1), S_updated, FALSE, NullTime, Combine(Today - 1, 1), NullStr),
     QRow(<<"A">>, NullStr, S_deleted, FALSE, SetTime, Combine(Today - 1, MinTime), NullStr),
     QRow(<<"a">>, LogoUrl(2), S_deleted, TRUE, NullTime, Combine(Today, 1), NullStr),
     QRow(<<"B", "a">>, NullStr, S_updating, TRUE, NullTime, Combine(Today - 8, 1), <<"e">>)}

\* tables of distinct rows, rows[i].demo_id = i
QTables ==
    UNION {{[i \in 1..n |-> [s[i] EXCEPT !.demo_id = i]] :
                s \in {q \in [1..n -> QRowSamples] :
                          \A i, j \in 1..n : q[i] = q[j] => i = j}} : n \in 0..MaxQRows}

QRules ==
    {R_status_is_created,
     Rule("status", "is", StrValue(S_deleted), "and", FALSE),
     Rule("status", "is_not", StrValue(S_created), "not", TRUE),
     Rule("name", "contains", StrValue(<<"A">>), "and", FALSE),
     Rule("name", "contains", StrValue(<<"A">>), "or", TRUE),
     Rule("name", "starts_with", StrValue(<<"b">>), "not", FALSE),
     Rule("logo", "is_empty", StrValue(<<>>), "and", FALSE),
     Rule("logo", "does_not_contain", StrValue(<<"1">>), "or", FALSE),
     Rule("logo", "contains", StrValue(<<"1">>), "not", FALSE),
     Rule("is_active", "is", BoolValue(TRUE), "and", FALSE),
     Rule("is_active", "is_not", StrValue(<<"T", "R", "U", "E">>), "or", FALSE),
     Rule("is_active", "is", StrValue(<<"y">>), "and", FALSE),
     Rule("created_at", "yesterday", StrValue(<<>>), "and", FALSE),
     Rule("demo_id", "is", StrValue(<<"1">>), "and", FALSE),
     Rule("nosuch", "is", StrValue(<<"a">>), "and", FALSE),
     Rule("__tablename__", "is", StrValue(<<"a">>), "and", FALSE),
     SearchRule(<<"name", "logo">>, "contains", StrValue(<<"a">>), "or"),
     SearchRule(<<"name", "status">>, "contains", StrValue(<<"a">>), "and")}

RuleSeqs == UNION {[1..n -> QRules] : n \in 1..MaxRules}

QFilterTrees ==
    {NoFilters}
    \cup {ListFilters(r) : r \in RuleSeqs}
    \cup {DictFilters(r, l) : r \in RuleSeqs, l \in {L_AND, L_OR, <<"a", "n", "y">>}}

Query(filters, search, order_by, skip, limit, scan, fault) ==
    [filters |-> filters, search |-> search, order_by |-> order_by, skip |-> skip,
     limit |-> limit, scan |-> scan, fault |-> fault, issued |-> TRUE,
     out |-> GetAll(rows, filters, search, order_by, skip, limit, scan, fault)]

QInit ==
    /\ now = Combine(FirstToday, 1)
    /\ sess = NoSessions
    /\ rows \in QTables
    /\ files = {rows[i].logo : i \in DOMAIN rows} \ {NullStr}
    /\ nextFile = 1
    /\ ops = 0
    /\ resp = NoResp
    /\ deleted_ok = {}
    /\ qres = NoQuery

IdentityScan == [i \in DOMAIN rows |-> i]

\* get_all with the filter tree and the search term varied
QueryFiltered ==
    /\ ~qres.issued
    /\ \E filters \in QFilterTrees, search \in {<<>>, <<"A">>} :
          qres' = Query(filters, search, "", 0, LimitDefault, IdentityScan, "none")
    /\ UNCHANGED <<rows, files, nextFile, ops, resp, deleted_ok, now, sess>>

\* get_all with ordering, offset and limit varied
QueryPaged ==
    /\ ~qres.issued
    /\ \E filters \in {NoFilters, ListFilters(<<R_status_is_created>>)},
          search \in {<<>>, <<"A">>},
          order_by \in {"", "-created_at", "created_at", "-nosuch"},
          skip \in 0..(MaxQRows + 1), limit \in 0..(MaxQRows + 1),
          scan \in Permutations(DOMAIN rows) :
          qres' = Query(filters, search, order_by, skip, limit, scan, "none")
    /\ UNCHANGED <<rows, files, nextFile, ops, resp, deleted_ok, now, sess>>

\* get_all when the storage engine fails or rejects the query
QueryFailing ==
    /\ ~qres.issued
    /\ \E q \in {<<-1, 1, "none">>, <<0, -1, "none">>, <<0, 1, "count">>, <<0, 1, "data">>} :
          qres' = Query(NoFilters, <<>>, "", q[1], q[2], IdentityScan, q[3])
    /\ UNCHANGED <<rows, files, nextFile, ops, resp, deleted_ok, now, sess>>

QNext ==
    \/ QueryFiltered
    \/ QueryPaged
    \/ QueryFailing

SpecQuery == QInit /\ [][QNext]_vars

(***************************************************************************)
(* The date specification: get_all with one relative-range rule on         *)
(* created_at.  DInit draws the server clock over a whole week and a       *)
(* one-row table whose created_at lies around the edges of the windows.    *)
(***************************************************************************)
Counts == (1..MaxCount) \cup {7}
PeriodTypes == {"day", "week", "month", "year"}

\* distances in days from today to a window edge, and the days next to them
EdgeDays ==
    (-7..7) \cup UNION {{PeriodDays(p, c) - 1, PeriodDays(p, c), PeriodDays(p, c) + 1} :
                           p \in PeriodTypes, c \in Counts}
DayOffsets == EdgeDays \cup {-k : k \in EdgeDays}

Clocks == {Combine(FirstToday + k, t) : k \in 0..6, t \in 0..(TicksPerDay - 1)}

DInit ==
    /\ now \in Clocks
    /\ sess = NoSessions
    /\ \E o \in DayOffsets, t \in {MinTime, TicksPerDay - 1} :
          rows = <<[QRow(<<"a">>, NullStr, S_created, TRUE, NullTime,
                         Combine(Today + o, t), NullStr) EXCEPT !.demo_id = 1]>>
    /\ files = {}
    /\ nextFile = 1
    /\ ops = 0
    /\ resp = NoResp
    /\ deleted_ok = {}
    /\ qres = NoQuery

DateQuery(operator, rel_range) ==
    Query(ListFilters(<<DateRule("created_at", operator, rel_range)>>), <<>>, "", 0,
          LimitDefault, IdentityScan, "none")

QueryPrevious ==
    /\ ~qres.issued
    /\ \E p \in PeriodTypes, c \in Counts, include_today \in BOOLEAN :
          qres' = DateQuery("previous", RelativeDateRange(p, c, include_today))
    /\ UNCHANGED <<rows, files, nextFile, ops, resp, deleted_ok, now, sess>>

QueryCurrent ==
    /\ ~qres.issued
    /\ \E p \in {"day", "week"} :
          qres' = DateQuery("current", RelativeDateRange(p, 1, FALSE))
    /\ UNCHANGED <<rows, files, nextFile, ops, resp, deleted_ok, now, sess>>

QueryNext ==
    /\ ~qres.issued
    /\ \E p \in PeriodTypes, c \in Counts, include_today \in BOOLEAN :
          qres' = DateQuery("next", RelativeDateRange(p, c, include_today))
    /\ UNCHANGED <<rows, files, nextFile, ops, resp, deleted_ok, now, sess>>

DNext ==
    \/ QueryPrevious
    \/ QueryCurrent
    \/ QueryNext

SpecDate == DInit /\ [][DNext]_vars

(***************************************************************************)
(* Properties of get_all (SpecQuery).                                      *)
(***************************************************************************)
QueryOk == qres.issued /\ qres.out.exc = "none"

Live(t) == SelectSeq(t, LAMBDA r : r.status # S_deleted)

\* C1: whatever the filter tree, search, ordering, offset and limit, get_all
\* returns no row whose status is 'deleted' in data, and total_count is the
\* count the same query gives on the table without its deleted rows.
C1_NoDeletedRow ==
    QueryOk =>
        /\ \A k \in 1..Len(qres.out.data) : qres.out.data[k].status # S_deleted
        /\ qres.out.pagination.total_count = Count(Live(rows), qres.filters, qres.search)

\* a deleted row satisfies an OR-grouped filter tree and the call returned rows
C1_Witness ==
    /\ QueryOk
    /\ Upper(OverallLogic(qres.filters)) = L_OR
    /\ Len(qres.out.data) > 0
    /\ \E i \in DOMAIN rows :
          /\ rows[i].status = S_deleted
          /\ WherePresent(qres.filters)
          /\ WhereEval(qres.filters, rows[i]) = "T"

\* C4: for offset >= 0 and limit >= 0, total_count is the number of rows
\* satisfying the final predicate whatever offset and limit are, and data is
\* the window of that row set at offset:
\* len(data) = min(limit, max(0, total_count - offset)).
C4_CountAndWindow ==
    (QueryOk /\ qres.skip >= 0 /\ qres.limit >= 0) =>
        LET full == GetAll(rows, qres.filters, qres.search, qres.order_by, 0, Len(rows),
                           qres.scan, "none")
            total == qres.out.pagination.total_count
            data == qres.out.data
        IN /\ total = Cardinality({i \in DOMAIN rows :
                                      FinalEval(qres.filters, qres.search, rows[i]) = "T"})
           /\ total = Len(full.data)
           /\ Len(data) = Min2(qres.limit, Max2(0, total - qres.skip))
           /\ \A k \in 1..Len(data) : data[k] = full.data[qres.skip + k]

\* a page that starts after the first row and leaves rows out
C4_Witness ==
    /\ QueryOk
    /\ qres.skip >= 1
    /\ Len(qres.out.data) >= 1
    /\ qres.out.pagination.total_count > Len(qres.out.data)
    /\ qres.search # <<>>

UnknownColumn(f) == f.column # "search" /\ f.column \notin ModelColumns
KnownRulesOnly(filters) ==
    [filters EXCEPT !.Filters = SelectSeq(filters.Filters, LAMBDA f : ~UnknownColumn(f))]

\* C8: a rule whose column is not a column of the entity leaves the result
\* unchanged (same data and total_count as without the rule) and raises no error.
C8_UnknownColumnIgnored ==
    (qres.issued /\ qres.fault = "none"
       /\ \E i \in 1..Len(FilterRules(qres.filters)) : UnknownColumn(FilterRules(qres.filters)[i]))
    => /\ qres.out.exc = "none"
       /\ qres.out = GetAll(rows, KnownRulesOnly(qres.filters), qres.search, qres.order_by,
                            qres.skip, qres.limit, qres.scan, qres.fault)

StorageFails(q) == q.fault # "none" \/ q.skip < 0 \/ q.limit < 0

\* C11: when the count query or the data query of a get_all call fails, the
\* call raises InternalServerErrorException and returns neither rows nor
\* pagination; a failed count query is the only statement sent, and no call
\* sends more than its two statements.
C11_FailureIsWhole ==
    (qres.issued /\ StorageFails(qres)) =>
        /\ qres.out.exc = "InternalServerErrorException"
        /\ qres.out.data = <<>>
        /\ qres.out.pagination = NoPagination
        /\ qres.fault = "count" => qres.out.queries = 1
        /\ qres.out.queries \in {1, 2}

\* the count query failed on a table that has a row to return
C11_Witness ==
    /\ qres.issued
    /\ qres.fault = "count"
    /\ qres.out.queries = 1
    /\ \E i \in DOMAIN rows : rows[i].status # S_deleted

\* C13: get_all returns total_pages = ceil(total_count / limit) when
\* limit > 0 (the least number of pages of limit rows that hold total_count
\* rows) and total_pages = 1 when limit = 0; a call with limit = 0 that the
\* storage engine answers does not fail.
C13_TotalPages ==
    /\ QueryOk =>
          LET total == qres.out.pagination.total_count
              pages == qres.out.pagination.total_pages
          IN /\ qres.limit > 0 =>
                   /\ pages >= 0
                   /\ pages * qres.limit >= total
                   /\ (pages - 1) * qres.limit < total
             /\ qres.limit = 0 => pages = 1
    /\ (qres.issued /\ qres.limit = 0 /\ ~StorageFails(qres)
          /\ \A i \in 1..Len(FilterRules(qres.filters)) : ~RuleRaises(FilterRules(qres.filters)[i]))
       => qres.out.exc = "none"

\* limit = 0 on a table where the count is positive
C13_Witness ==
    /\ QueryOk
    /\ qres.limit = 0
    /\ qres.out.pagination.total_count >= 1
    /\ qres.out.pagination.total_pages = 1

\* the whole selected set is returned
WholePage == QueryOk /\ qres.skip = 0 /\ qres.limit >= Len(rows)
Returned(i) == \E k \in 1..Len(qres.out.data) : qres.out.data[k] = rows[i]
PresentRules(filters) ==
    {j \in 1..Len(FilterRules(filters)) : RulePresent(FilterRules(filters)[j])}
Satisfies(filters, j, row) == RuleEval(FilterRules(filters)[j], row) = "T"
SearchSatisfied(search, row) == search = <<>> \/ SearchEval(search, row) = "T"
OrTree(filters) == Upper(OverallLogic(filters)) \in {L_OR, L_ANY}

\* C14: get_all returns a non-deleted row iff it satisfies every
\* rule-predicate when the tree-level logic is AND, is absent, or the filters
\* are a bare list, and iff it satisfies at least one rule-predicate when the
\* tree-level logic is OR or ANY in any letter case; the search predicate and
\* the soft-delete exclusion are ANDed on top.
C14_TreeLogic ==
    WholePage =>
        \A i \in DOMAIN rows :
            Returned(i) <=>
                /\ rows[i].status # S_deleted
                /\ SearchSatisfied(qres.search, rows[i])
                /\ IF OrTree(qres.filters)
                   THEN \E j \in PresentRules(qres.filters) : Satisfies(qres.filters, j, rows[i])
                   ELSE \A j \in PresentRules(qres.filters) : Satisfies(qres.filters, j, rows[i])

\* C14 (amended): as C14 when at least one rule of the tree yields a
\* predicate; a tree in which no rule yields a predicate (no rules, or only
\* skipped rules) does not filter at all, under OR and ANY as under AND.
C14_TreeLogicAmended ==
    WholePage =>
        \A i \in DOMAIN rows :
            Returned(i) <=>
                /\ rows[i].status # S_deleted
                /\ SearchSatisfied(qres.search, rows[i])
                /\ IF OrTree(qres.filters) /\ PresentRules(qres.filters) # {}
                   THEN \E j \in PresentRules(qres.filters) : Satisfies(qres.filters, j, rows[i])
                   ELSE \A j \in PresentRules(qres.filters) : Satisfies(qres.filters, j, rows[i])

\* under logic "any" a returned row satisfies one of two rule-predicates and
\* not the other, while the search term keeps another live row out
C14_Witness ==
    /\ WholePage
    /\ Upper(OverallLogic(qres.filters)) = L_ANY
    /\ Cardinality(PresentRules(qres.filters)) = 2
    /\ qres.search # <<>>
    /\ \E i \in DOMAIN rows :
          /\ Returned(i)
          /\ \E j \in PresentRules(qres.filters) : ~Satisfies(qres.filters, j, rows[i])
    /\ \E i \in DOMAIN rows : ~Returned(i) /\ rows[i].status # S_deleted

\* C20: for a single-rule filter whose rule yields a predicate, the rows
\* returned when the rule has logical 'not' are exactly the non-deleted rows
\* that are not returned when the same rule has logical 'and', rows whose
\* filtered column is null included, under any tree-level logic.
C20_NotIsComplement ==
    (WholePage /\ Len(FilterRules(qres.filters)) = 1 /\ qres.search = <<>>
       /\ FilterRules(qres.filters)[1].logical = "not"
       /\ RulePresent(FilterRules(qres.filters)[1]))
    => LET positive == [qres.filters EXCEPT !.Filters[1].logical = "and"]
           other == GetAll(rows, positive, qres.search, qres.order_by, qres.skip,
                           qres.limit, qres.scan, qres.fault)
       IN \A i \in DOMAIN rows :
             Returned(i) <=>
                /\ rows[i].status # S_deleted
                /\ ~\E k \in 1..Len(other.data) : other.data[k] = rows[i]

SearchColumnsRule(f) == f.column = "search" /\ f.has_columns /\ Len(f.columns) >= 2

\* C21: for a rule with column 'search' and a columns list naming several
\* entity columns, whether its logical is 'and' (the default) or 'or', a
\* non-deleted row is returned iff at least one of the listed columns
\* satisfies the operator and value.
C21_SearchColumnsAreOred ==
    (WholePage /\ Len(FilterRules(qres.filters)) = 1 /\ qres.search = <<>>
       /\ SearchColumnsRule(FilterRules(qres.filters)[1])
       /\ FilterRules(qres.filters)[1].logical \in {"and", "or"}
       /\ \A c \in 1..Len(FilterRules(qres.filters)[1].columns) :
             PartPresent(FilterRules(qres.filters)[1], FilterRules(qres.filters)[1].columns[c]))
    => LET f == FilterRules(qres.filters)[1]
       IN \A i \in DOMAIN rows :
             Returned(i) <=>
                /\ rows[i].status # S_deleted
                /\ \E c \in 1..Len(f.columns) : PartEval(f, f.columns[c], rows[i]) = "T"

\* C22: in a bare list [r1, r2] whose second rule has logical 'or', a
\* non-deleted row that satisfies r2 but not r1 is returned.
C22_RuleLogicalOr ==
    (WholePage /\ qres.filters.kind = "list" /\ Len(FilterRules(qres.filters)) = 2
       /\ PresentRules(qres.filters) = {1, 2}
       /\ FilterRules(qres.filters)[2].logical = "or"
       /\ qres.search = <<>>)
    => \A i \in DOMAIN rows :
          (/\ rows[i].status # S_deleted
           /\ Satisfies(qres.filters, 2, rows[i])
           /\ ~Satisfies(qres.filters, 1, rows[i]))
          => Returned(i)

\* C22 (amended): a rule's logical 'or' does not change how the rule combines
\* with the other rules: in a bare list [r1, r2] whose second rule has logical
\* 'or', a non-deleted row is returned iff it satisfies both r1 and r2.
C22_RuleLogicalOrAmended ==
    (WholePage /\ qres.filters.kind = "list" /\ Len(FilterRules(qres.filters)) = 2
       /\ PresentRules(qres.filters) = {1, 2}
       /\ FilterRules(qres.filters)[2].logical = "or"
       /\ qres.search = <<>>)
    => \A i \in DOMAIN rows :
          Returned(i) <=>
             /\ rows[i].status # S_deleted
             /\ Satisfies(qres.filters, 1, rows[i])
             /\ Satisfies(qres.filters, 2, rows[i])

\* of two non-deleted rows that satisfy the second rule, the one that also
\* satisfies the first is returned and the other is not
C22_Witness ==
    /\ WholePage
    /\ qres.filters.kind = "list"
    /\ Len(FilterRules(qres.filters)) = 2
    /\ PresentRules(qres.filters) = {1, 2}
    /\ FilterRules(qres.filters)[2].logical = "or"
    /\ qres.search = <<>>
    /\ \E i \in DOMAIN rows : Returned(i)
    /\ \E i \in DOMAIN rows :
          /\ rows[i].status # S_deleted
          /\ Satisfies(qres.filters, 2, rows[i])
          /\ ~Satisfies(qres.filters, 1, rows[i])
          /\ ~Returned(i)

SortedBy(data, col, descending) ==
    \A k \in 1..(Len(data) - 1) :
        IF descending THEN data[k][col] >= data[k + 1][col]
        ELSE data[k][col] <= data[k + 1][col]

\* C23: when order_by is absent or names a field that does not exist on the
\* entity, data is ordered by created_at descending; when it names an
\* existing field, data is ordered by that field, descending iff the name is
\* prefixed with '-'.
C23_Ordering ==
    QueryOk =>
        IF qres.order_by = "" \/ FieldName(qres.order_by) \notin ModelColumns
        THEN SortedBy(qres.out.data, "created_at", TRUE)
        ELSE SortedBy(qres.out.data, FieldName(qres.order_by), DescOrder(qres.order_by))

NotABoolean(f) ==
    /\ f.column \in BoolColumns
    /\ map_frontend_operator(f.operator) \in {"is", "is_not"}
    /\ BoolValueOf(f.value) = "None"
BooleanRulesOnly(filters) ==
    [filters EXCEPT !.Filters = SelectSeq(filters.Filters, LAMBDA f : ~NotABoolean(f))]

\* C26: on a boolean column with operator is or is_not, a value that is
\* neither a boolean nor the string 'true' or 'false' in any letter case
\* contributes no predicate: the result is the result of the same query
\* without that rule.
C26_NonBooleanValueIgnored ==
    (qres.issued /\ qres.fault = "none"
       /\ \E i \in 1..Len(FilterRules(qres.filters)) : NotABoolean(FilterRules(qres.filters)[i]))
    => qres.out = GetAll(rows, BooleanRulesOnly(qres.filters), qres.search, qres.order_by,
                         qres.skip, qres.limit, qres.scan, qres.fault)

(***************************************************************************)
(* Properties of the date branch (SpecDate).                               *)
(***************************************************************************)
TheRule == FilterRules(qres.filters)[1]
TheRange == TheRule.relativeDateRange
RowDay(i) == DateOf(rows[i].created_at)

\* C15: operator previous with includeToday false and count n, evaluated on
\* day D, matches a row iff its datetime falls on a day in [D-n, D-1] for
\* periodType day, and in [D-7n, D-1], [D-30n, D-1], [D-365n, D-1] for week,
\* month and year.
C15_PreviousExcludingToday ==
    (WholePage /\ TheRule.operator = "previous" /\ ~TheRange.includeToday) =>
        LET n == TheRange.count
            days == CASE TheRange.periodType = "day" -> n
                      [] TheRange.periodType = "week" -> 7 * n
                      [] TheRange.periodType = "month" -> 30 * n
                      [] TheRange.periodType = "year" -> 365 * n
        IN \A i \in DOMAIN rows :
              Returned(i) <=> (Today - days <= RowDay(i) /\ RowDay(i) <= Today - 1)

\* previous 7 days: a row at the first instant of day D-7 is returned by a
\* query evaluated later in the day than that
C15_Witness ==
    /\ WholePage
    /\ TheRule.operator = "previous"
    /\ TheRange = RelativeDateRange("day", 7, FALSE)
    /\ now > Combine(Today, MinTime)
    /\ rows[1].created_at = Combine(Today - 7, MinTime)
    /\ Returned(1)

\* C16: operator current with periodType week matches a row iff its date lies
\* between the Monday and the Sunday of the week that contains today, both
\* inclusive, on whichever weekday the query is evaluated.
C16_CurrentWeek ==
    (WholePage /\ TheRule.operator = "current" /\ TheRange.periodType = "week") =>
        LET monday == CHOOSE m \in (Today - 6)..Today : m % 7 = 1
        IN \A i \in DOMAIN rows :
              Returned(i) <=> (monday <= RowDay(i) /\ RowDay(i) <= monday + 6)

\* evaluated on a Wednesday, the query returns a row dated the Sunday after
C16_Witness ==
    /\ WholePage
    /\ TheRule.operator = "current"
    /\ TheRange.periodType = "week"
    /\ Today % 7 = 3
    /\ RowDay(1) = Today + 4
    /\ Returned(1)

\* C24: operator previous with includeToday true and count n, evaluated on
\* day D, matches a row iff its datetime falls on a day in [D - (n-1)*p, D],
\* p being 1, 7, 30, 365 days for periodType day, week, month, year; rows
\* dated after D are not matched.
C24_PreviousIncludingToday ==
    (WholePage /\ TheRule.operator = "previous" /\ TheRange.includeToday) =>
        LET p == CASE TheRange.periodType = "day" -> 1
                   [] TheRange.periodType = "week" -> 7
                   [] TheRange.periodType = "month" -> 30
                   [] TheRange.periodType = "year" -> 365
        IN \A i \in DOMAIN rows :
              Returned(i) <=>
                 (Today - (TheRange.count - 1) * p <= RowDay(i) /\ RowDay(i) <= Today)

\* C25: operator next with periodType year and count n produces a predicate:
\* a row dated before today, or more than 365n days after today, is not
\* returned.
C25_NextYear ==
    (WholePage /\ TheRule.operator = "next" /\ TheRange.periodType = "year") =>
        \A i \in DOMAIN rows :
            Returned(i) =>
                (Today <= RowDay(i) /\ RowDay(i) <= Today + 365 * TheRange.count)

(***************************************************************************)
(* Properties of concurrent requests (SpecConc).                           *)
(***************************************************************************)
\* C12: whatever creates and soft-deletes other requests commit between the
\* count query and the data query of a get_all call, the returned
\* total_count and data agree:
\* len(data) = min(limit, max(0, total_count - offset)) and every row of data
\* is one of the rows that were counted.
C12_CountMatchesData ==
    \A s \in Sessions :
        (sess[s].op = "list" /\ sess[s].pc = "done") =>
            /\ Len(sess[s].data) =
                  Min2(sess[s].limit, Max2(0, sess[s].total_count - sess[s].skip))
            /\ \A k \in 1..Len(sess[s].data) : sess[s].data[k].demo_id \in sess[s].counted

\* C18: once a delete has committed, no update, update_status or
\* update_is_active of another session commits a change to the row: a row
\* whose status is 'deleted' keeps every field in every later step.
C18_DeletedRowIsFrozen ==
    [][\A i \in DOMAIN rows : rows[i].status = S_deleted => rows'[i] = rows[i]]_vars

(***************************************************************************)
(* Properties of the service (Spec).                                       *)
(***************************************************************************)
\* C17: for an entity that was just created, read, update,
\* update_status('updated'), update_is_active(false) and delete, in this
\* order, each succeed: after is_active was set to false the entity is still
\* found, and only the delete turns its status to 'deleted'.
C17_SequenceSucceeds ==
    /\ ops >= 1 =>
          /\ resp.exc = "none"
          /\ resp.status_code = IF resp.op = "create" THEN HTTP_201_CREATED ELSE HTTP_200_OK
          /\ resp.demo_id \in DOMAIN rows
          /\ (rows[resp.demo_id].status = S_deleted) <=> (resp.op = "delete")
    /\ ops >= 5 => rows[resp.demo_id].is_active = FALSE

\* the delete at the end of the sequence succeeded on an entity that carries
\* a logo and an error message
C17_Witness ==
    /\ ops = 6
    /\ resp.op = "delete"
    /\ resp.status_code = HTTP_200_OK
    /\ resp.demo_id \in deleted_ok
    /\ rows[resp.demo_id].logo # NullStr
    /\ rows[resp.demo_id].error_message # NullStr

\* C2: once delete(id) has succeeded, every later read(id) is answered with the
\* not-found error and no row, whatever requests were served in between; the
\* row's status stays 'deleted'.
C2_DeletedStaysNotFound ==
    /\ \A id \in deleted_ok : rows[id].status = S_deleted
    /\ (resp.op = "read" /\ resp.demo_id \in deleted_ok) =>
          /\ resp.exc = "DemoNotFoundException"
          /\ resp.status_code = HTTP_404_NOT_FOUND
          /\ resp.data = <<>>

\* a read of a deleted id after a further mutating request followed the delete
C2_Witness ==
    /\ resp.op = "read"
    /\ resp.demo_id \in deleted_ok
    /\ ops >= 3

Mutators == {"update", "update_status", "update_is_active", "delete"}

\* C3: update, update_status, update_is_active and delete on an entity whose
\* status is 'deleted' fail with the not-found error, as they do for an id that
\* does not exist, and leave the stored rows and logo files unchanged.
C3_DeletedMutationNotFound ==
    [][(/\ resp'.op \in Mutators
        /\ \/ resp'.demo_id \notin DOMAIN rows
           \/ rows[resp'.demo_id].status = S_deleted)
       => /\ resp'.exc = "DemoNotFoundException"
          /\ resp'.status_code = HTTP_404_NOT_FOUND
          /\ resp'.data = <<>>
          /\ rows' = rows
          /\ files' = files]_vars

\* a mutating request on a deleted row has been refused
C3_Witness ==
    /\ resp.op \in Mutators
    /\ resp.demo_id \in DOMAIN rows
    /\ rows[resp.demo_id].status = S_deleted
    /\ resp.status_code = HTTP_404_NOT_FOUND

\* C19: update_status is all-or-nothing: whenever the request ends in an
\* error, the stored status, error_message and error_user_message of every
\* row are the ones from before the request.
C19_UpdateStatusAllOrNothing ==
    [][(resp'.op = "update_status" /\ resp'.exc # "none") =>
          /\ DOMAIN rows' = DOMAIN rows
          /\ \A i \in DOMAIN rows :
                /\ rows'[i].status = rows[i].status
                /\ rows'[i].error_message = rows[i].error_message
                /\ rows'[i].error_user_message = rows[i].error_user_message]_vars

FailingFiles == RequestFiles \ {NoFile, "png"}

\* C27: when the logo upload fails during a create whose name is valid, the
\* create still succeeds and returns the persisted demo, with no logo.
C27_CreateSurvivesUploadFailure ==
    (resp.op = "create" /\ resp.file \in FailingFiles /\ resp.exc # "ValidationError") =>
        /\ resp.status_code = HTTP_201_CREATED
        /\ resp.demo_id \in DOMAIN rows
        /\ resp.data = <<rows[resp.demo_id]>>
        /\ rows[resp.demo_id].logo = NullStr

\* C28: an update of a non-deleted entity that omits name (with no file, or
\* with a logo file that uploads) succeeds and leaves the stored name unchanged.
C28_UpdateWithoutName ==
    [][\A id \in DemoIds, file \in {NoFile, "png"} :
          (/\ id \in DOMAIN rows
           /\ rows[id].status # S_deleted
           /\ resp' = Resp("update", id, file, UpdateDemo(Stored, id, NullStr, file)))
          => /\ resp'.status_code = HTTP_200_OK
             /\ rows'[id].name = rows[id].name
             /\ rows'[id].status = S_updated]_vars

\* C29: every row whose status is 'deleted' has is_active = false and a
\* non-null deleted_at, whichever operation gave it that status.
C29_DeletedRowShape ==
    \A i \in DOMAIN rows :
        rows[i].status = S_deleted =>
            (rows[i].is_active = FALSE /\ rows[i].deleted_at # NullTime)

\* C30: every stored non-deleted demo whose logo is non-null refers to a file
\* that exists in the logo store.
C30_LogoFileExists ==
    \A i \in DOMAIN rows :
        (rows[i].status # S_deleted /\ rows[i].logo # NullStr) => rows[i].logo \in files

\* C5: pagination.total_count of the list response is the total_count of the
\* repository's count query, not the number of rows in the returned page.
C5_TotalCountIsRepositoryCount ==
    (resp.op = "list" /\ resp.status_code = HTTP_200_OK) =>
        resp.pagination.total_count = resp.repo.total_count

WellFormedFilters(raw) ==
    raw.syntax = "list" \/ (raw.syntax = "object" /\ raw.has_Filters)

\* C6: a list request whose filters parameter is well-formed JSON (a list of
\* rules or the {Filters, logic} object) is answered successfully and its rules
\* reach the repository's get_all unchanged.
C6_WellFormedFiltersAnswered ==
    (resp.op = "list" /\ WellFormedFilters(resp.req.filters) /\ resp.req.fault = "none") =>
        /\ resp.status_code = HTTP_200_OK
        /\ resp.repo.called
        /\ FilterRules(resp.repo.filters) = resp.req.filters.rules

\* C7: a list request with a filters string that is not valid JSON has the
\* outcome of the same request with filters omitted: same data, same
\* pagination, and no error when the storage engine answers.
C7_MalformedFiltersAsOmitted ==
    (resp.op = "list" /\ resp.req.filters.syntax = "malformed") =>
        LET r == ListWorkspaces(rows, [resp.req EXCEPT !.filters = RawOmitted])
        IN /\ resp.exc = r.exc
           /\ resp.status_code = r.status_code
           /\ resp.data = r.data
           /\ resp.pagination = r.pagination
           /\ resp.req.fault = "none" => resp.status_code = HTTP_200_OK

\* a request with malformed filters was answered with rows
C7_Witness ==
    /\ resp.op = "list"
    /\ resp.req.filters.syntax = "malformed"
    /\ Len(resp.data) >= 1

\* C9: a list request whose offset is negative or whose limit is outside
\* 1..100 is rejected with a request-validation error and never reaches the
\* repository query.
C9_OutOfRangeRejected ==
    (resp.op = "list"
       /\ (resp.req.offset < OffsetMin \/ resp.req.limit < LimitMin \/ resp.req.limit > LimitMax))
    => /\ resp.status_code = HTTP_422_UNPROCESSABLE_ENTITY
       /\ ~resp.repo.called

\* C10: a read immediately after a create that succeeded without a logo
\* succeeds and returns the name and logo the create returned, with status
\* 'created' and is_active true.
C10_CreateThenRead ==
    [][(/\ resp.op = "create"
        /\ resp.status_code = HTTP_201_CREATED
        /\ resp.file = NoFile
        /\ resp'.op = "read"
        /\ resp'.demo_id = resp.demo_id)
       => /\ resp'.status_code = HTTP_200_OK
          /\ Len(resp'.data) = 1
          /\ Len(resp.data) = 1
          /\ resp.data[1].demo_id = resp.demo_id
          /\ resp'.data[1].name = resp.data[1].name
          /\ resp'.data[1].logo = resp.data[1].logo
          /\ resp'.data[1].logo = NullStr
          /\ resp'.data[1].status = S_created
          /\ resp'.data[1].is_active = TRUE]_vars

\* the only request before the read was a create of " B " without a logo file
C10_Witness ==
    /\ resp.op = "read"
    /\ resp.status_code = HTTP_200_OK
    /\ ops = 1
    /\ files = {}
    /\ resp.data = <<rows[resp.demo_id]>>
    /\ resp.data[1].name = <<"B">>
    /\ resp.data[1].logo = NullStr

====
